---- MODULE Spec2Model ----
(***************************************************************************)
(* QMQTT2SQL: the ingestion and de-duplication pipeline of MqttSubscriber. *)
(*                                                                         *)
(* The model follows the sensorId-addressed revision of the subscriber     *)
(* (handleMessage, compareToPreviousValue, handleAnyMessage) and keeps the *)
(* store as the list of rows of the type partitions plus the sensors_seen  *)
(* table.                                                                  *)
(*                                                                         *)
(* Numbers: a double is an integer count of units of 2^-21, which is exact *)
(* for every value used here (all lie in [16,32)).  A float has a 24 bit   *)
(* mantissa, so in [16,32) floats are the multiples of 2^-19 = 4 units.    *)
(***************************************************************************)
EXTENDS Integers, Sequences, FiniteSets, TLC

(* ---------------------------- bounds ----------------------------------- *)

\* rows the type partitions can hold before the model stops inserting
MaxRows == 3
\* length of m_seenTopics before the model stops appending
MaxSeen == 3
\* executions of the sensors_seen upsert per topic before the model stops
MaxUpserts == 2
\* timeouts of the cleanup timer the model follows
MaxCleanups == 1
\* messages the broker publishes on the rule's topic in a run of two processes
MaxPublished == 3

(* ---------------------------- QVariant --------------------------------- *)

\* a QVariant: its type name (QVariant::typeToName), text and number part
Invalid == [type |-> "Invalid", s |-> "", n |-> 0]
QString(s) == [type |-> "QString", s |-> s, n |-> 0]
Double(n) == [type |-> "double", s |-> "", n |-> n]

\* QVariant::isNull
isNull(v) == v.type = "Invalid"

\* QVariant::operator== for two variants of one type; on doubles Qt compares
\* exactly (Qt6) or within 1e-12 relative (Qt5), which is exact on this grid
QVariantEq(a, b) == a.type = b.type /\ a.s = b.s /\ a.n = b.n

\* doubles of the scenarios, in units of 2^-21
D21_5 == 43 * 2^20
D21_5000005 == D21_5 + 1
D21_50001 == D21_5 + 21
D22_0 == 22 * 2^21

Abs(x) == IF x < 0 THEN 0 - x ELSE x
Min(a, b) == IF a <= b THEN a ELSE b

\* distance of two floats in [16,32), in units of 2^-21
FloatUlp == 4

\* QVariant::toFloat of a double, and the rounding of the "real" column:
\* round to the nearest float, ties to the even mantissa
toFloat(x) ==
    LET q == x \div FloatUlp
        r == x % FloatUlp
    IN  IF 2 * r < FloatUlp THEN q * FloatUlp
        ELSE IF 2 * r > FloatUlp THEN (q + 1) * FloatUlp
        ELSE IF q % 2 = 0 THEN q * FloatUlp ELSE (q + 1) * FloatUlp

\* qFuzzyCompare(float, float): qAbs(p1 - p2) * 100000.f <= qMin(qAbs(p1), qAbs(p2))
qFuzzyCompare(p1, p2) == Abs(p1 - p2) <= Min(Abs(p1), Abs(p2)) \div 100000

\* QString::toDouble on the texts the model feeds
TextDouble ==
    ("21.5" :> D21_5) @@ ("21.5000005" :> D21_5000005) @@
    ("21.50001" :> D21_50001) @@ ("22.0" :> D22_0)

\* QVariant::convert(targetType): <<ok, converted>>
convert(v, type) ==
    IF v.type = type THEN [ok |-> TRUE, v |-> v]
    ELSE IF v.type = "QString" /\ type = "double" /\ v.s \in DOMAIN TextDouble
         THEN [ok |-> TRUE, v |-> Double(TextDouble[v.s])]
    ELSE [ok |-> FALSE, v |-> Invalid]

(* ---------------------------- payloads --------------------------------- *)

\* QJsonDocument::fromJson followed by QtJsonPath::getValue("$.value"):
\* the payloads that parse, with the value the path resolves to
\* (Invalid when the member is null or missing)
JsonValue ==
    ("{\"value\": 21.5}" :> Double(D21_5)) @@
    ("{\"value\": 21.50001}" :> Double(D21_50001)) @@
    ("{\"value\": 22.0}" :> Double(D22_0)) @@
    ("{\"value\": \"abc\"}" :> QString("abc")) @@
    ("{\"value\": null}" :> Invalid)

fromJsonOk(payload) == payload \in DOMAIN JsonValue

getValue(payload, jsonpath) ==
    IF jsonpath = "$.value" THEN JsonValue[payload] ELSE Invalid

(* ---------------------------- configuration ---------------------------- *)

\* MqttTopicConfig records as Mqtt2SqlConfig::parse reads them from the
\* <prefix>_config table (sensorId is its primary key)
TextRule == [sensorId |-> 1, topic |-> "status", jsonpath |-> "", type |-> "QString"]
JsonRule == [sensorId |-> 2, topic |-> "sensors/temp", jsonpath |-> "$.value", type |-> "double"]
RawRule == [sensorId |-> 3, topic |-> "raw/temp", jsonpath |-> "", type |-> "double"]

\* a rule with the topic filter of TextRule, in a second config table
AliasRule == [sensorId |-> 2, topic |-> "status", jsonpath |-> "", type |-> "QString"]

\* the rows of the <prefix>_config table: one topic per rule
mqttTopicConfig == <<TextRule, JsonRule, RawRule>>

\* the rows of a <prefix>_config table in which two rules have the same topic
SharedTopicConfig == <<TextRule, AliasRule>>

Rules == {mqttTopicConfig[i] : i \in DOMAIN mqttTopicConfig}
SensorIds == {c.sensorId : c \in Rules}

\* the "scaling real" column of the <prefix>_config table: NULL (NoScaling)
\* but for RawRule, whose values are to be doubled
NoScaling == 0
scaling == [k \in SensorIds |-> IF k = RawRule.sensorId THEN 2 ELSE NoScaling]

\* two topics no rule is configured for
Unconfigured == "devices/x/status"
OtherUnconfigured == "devices/y/status"

Topics == {c.topic : c \in Rules} \cup {Unconfigured, OtherUnconfigured}

\* payloads the broker carries on a topic
Payloads(topic) ==
    IF topic = TextRule.topic THEN {"online", "offline"}
    ELSE IF topic = JsonRule.topic THEN DOMAIN JsonValue \cup {"{\"value\":"}
    ELSE IF topic = RawRule.topic THEN {"21.5", "21.5000005", "21.50001", "22.0", "n/a"}
    ELSE {"{\"on\":true}", "{\"on\": false}", "on"}

\* the payloads of a topic the model hands to the "#" subscription
AnyPayloads(topic) ==
    Payloads(topic) \cap
        {"online", "offline", "{\"value\": 21.5}", "{\"value\": 22.0}", "21.5", "22.0",
         "{\"on\":true}", "{\"on\": false}", "on"}

\* the "data jsonb" column of sensors_seen: the payloads it accepts, with the
\* text it holds for them (jsonb keeps no insignificant white space of the
\* input and prints a blank after each colon)
JsonbText ==
    [p \in DOMAIN JsonValue \cup DOMAIN TextDouble \cup {"{\"on\": false}"} |-> p] @@
    ("{\"on\":true}" :> "{\"on\": true}")

jsonbOk(payload) == payload \in DOMAIN JsonbText

\* the sets of topics that carry traffic during one run of the program
Traffic ==
    { {TextRule.topic}, {JsonRule.topic}, {RawRule.topic},
      {Unconfigured, OtherUnconfigured} }

\* the store call that fails while one message is handled
StoreFaults == {"none", "query", "prepare", "exec"}

(* ---------------------------- state ------------------------------------ *)

VARIABLES
    published,     \* the topics that carry traffic during this run
    rows,          \* the type partitions: rows in order of their ts
    sensors_seen,  \* the <prefix>_sensors_seen table: topic -> data
    dbOpen,        \* db.isValid() && db.isOpen()
    m_lastvalues,  \* sensorId -> last inserted value
    m_seenTopics,  \* topics seen on the "#" subscription
    upserts,       \* topic -> executions of the sensors_seen upsert
    hist,          \* sensorId -> its most recent rule message and what became of it
    anyHist,       \* topic -> its first and latest "#" payload, and how many came
    queries,       \* sensorId -> latest-row queries sent to the store: 0, 1, or 2 for more
    scenario,      \* messages of the rule's scenario handled so far, or Off
    dispatch,      \* the latest run of handleMessage: whose connection, which config
    ini,           \* the command line, the config file and the <prefix>_config
                   \* table the process is started with
    m_lastError,   \* Mqtt2SqlConfig::m_lastError
    m_settings,    \* Mqtt2SqlConfig::m_settings: "nullptr" or "set"
    cleanups,      \* timeouts of m_cleanupTimer so far
    pc,            \* where the process is: "main", "parsed", "running", "exited"
    exited,        \* the path the process terminated on and its exit code
    clientState,   \* m_client.state()
    connects,      \* calls of connectToHost / connectToHostEncrypted
    signals,       \* the errorOccured signals emitted, in order
    notified,      \* the last ClientError handed to onConnectionError
    m_subscriptions, \* the topic filters of the subscriptions made
    opened,        \* what the last db.open() gave: "none" (not called), "ok", "failed"
    proc,          \* the process m_lastvalues, m_seenTopics, taken and inCall are of: 1 or 2
    peer,          \* the same members of the other process on the store
    stream,        \* the messages the broker has published on the rule's topic, in order
    taken,         \* how many of them the process has handed to handleMessage
    inCall         \* the message whose handler is inside a store call, or NoCall

\* the store, the members of the ingestion and what the model records of it
ingestVars == <<published, rows, sensors_seen, m_lastvalues, m_seenTopics,
                upserts, hist, anyHist, queries, scenario, dispatch,
                proc, peer, stream, taken, inCall>>

\* what a run of two processes adds
shareVars == <<proc, peer, stream, taken, inCall>>

\* the process and its connection to the broker
lifeVars == <<ini, pc, exited, clientState, connects, signals, notified, m_subscriptions,
              opened, m_lastError, m_settings, cleanups>>

vars == <<published, rows, sensors_seen, dbOpen, m_lastvalues, m_seenTopics,
          upserts, hist, anyHist, queries, scenario, dispatch,
          ini, pc, exited, clientState, connects, signals, notified, m_subscriptions,
          opened, m_lastError, m_settings, cleanups,
          proc, peer, stream, taken, inCall>>

NoValue == [type |-> "None", s |-> "", n |-> 0]
NoData == "<none>"
NoMessage ==
    [payload |-> NoData, outcome |-> "none", queried |-> FALSE, queryFailed |-> FALSE,
     inserts |-> 0]
NoAnyMessage == [first |-> NoData, payload |-> NoData, count |-> 0]
NoDispatch == [handler |-> 0, config |-> 0]
Off == 0 - 1
NoCall == [handler |-> "none", topic |-> "", payload |-> NoData]

(* ---------------------------- process ---------------------------------- *)

\* exit codes
configErrorExitCode == 1
subscribeExitCode == 1
storeExitCode == 2
connectionExitCode == 3
NoExitCode == 0 - 1

NotExited == [path |-> "none", code |-> NoExitCode]

\* QMqttClient::ClientError
ClientErrors ==
    {"NoError", "InvalidProtocolVersion", "IdRejected", "ServerUnavailable",
     "BadUsernameOrPassword", "NotAuthorized", "TransportInvalid",
     "ProtocolViolation", "UnknownError", "Mqtt5SpecificError"}

qMqttClientErrorToString ==
    [error \in ClientErrors |->
        CASE error = "NoError" -> "No error occurred."
          [] error = "InvalidProtocolVersion" ->
                "Error: The broker does not accept a connection using the specified protocol version."
          [] error = "IdRejected" ->
                "Error: The client ID is malformed. This might be related to its length."
          [] error = "ServerUnavailable" ->
                "Error: The network connection has been established, but the service is unavailable on the broker side."
          [] error = "BadUsernameOrPassword" ->
                "Error: The data in the username or password is malformed."
          [] error = "NotAuthorized" -> "Error: The client is not authorized to connect."
          [] error = "TransportInvalid" ->
                "Error: The underlying transport caused an error. For example, the connection might have been interrupted unexpectedly."
          [] error = "ProtocolViolation" ->
                "Error: The client encountered a protocol violation, and therefore closed the connection."
          [] error = "UnknownError" -> "Error: An unknown error occurred."
          [] OTHER -> "Error: The error is related to MQTT protocol level 5. A reason code might provide more details."]

\* m_config.mqttTopicConfig(): the rules parse read from the table
m_mqttTopicConfig == ini.configTable

\* the topic filters subscribe() asks for, in order: one per rule, then "#"
Filters ==
    [i \in 1..(Len(m_mqttTopicConfig) + 1) |->
        IF i <= Len(m_mqttTopicConfig) THEN m_mqttTopicConfig[i].topic ELSE "#"]

\* sender()->property("config"): m_client.subscribe gives one QMqttSubscription
\* per topic filter, so the property holds the config of the last rule that
\* subscribed the filter
senderConfig(filter) ==
    LET set == {i \in DOMAIN m_subscriptions \cap DOMAIN m_mqttTopicConfig :
                    m_subscriptions[i] = filter}
        last == CHOOSE i \in set : \A j \in set : j <= i
    IN  m_mqttTopicConfig[last]

HasSubscription(filter) ==
    \E i \in DOMAIN m_subscriptions : m_subscriptions[i] = filter

\* no version key in the [mqtt] group
NoVersion == 0 - 1

\* command lines, config files and config tables: the --version option, the
\* hostname and the version of the [mqtt] group, usetls, and the rules
Inis ==
    [showVersion : BOOLEAN, hostname : {"", "broker"}, version : {NoVersion, 3, 4, 5, 6},
     usetls : BOOLEAN, configTable : {mqttTopicConfig, SharedTopicConfig}]

\* the start the ingestion is followed from
StandardIni ==
    [showVersion |-> FALSE, hostname |-> "broker", version |-> 3, usetls |-> FALSE,
     configTable |-> mqttTopicConfig]

\* the same start with the config table in which two rules share a topic
SharedIni == [StandardIni EXCEPT !.configTable = SharedTopicConfig]

\* the process is running: config read, store open, client connected, subscribed
Subscribed ==
    /\ ini = StandardIni
    /\ pc = "running"
    /\ exited = NotExited
    /\ clientState = "Connected"
    /\ connects = 1
    /\ signals = <<>>
    /\ notified = "None"
    /\ m_subscriptions = Filters
    /\ opened = "ok"
    /\ m_lastError = ""
    /\ m_settings = "set"
    /\ cleanups = 0

\* the value a partition holds for an inserted variant: "value real" keeps a float
stored(v) == IF v.type = "double" THEN Double(toFloat(v.n)) ELSE v

Row(table, sensorId, v) == [table |-> table, sensorId |-> sensorId, value |-> stored(v)]

\* a process that has handled nothing: empty m_lastvalues and m_seenTopics
NoPeer ==
    [m_lastvalues |-> [k \in SensorIds |-> NoValue], m_seenTopics |-> <<>>,
     taken |-> 0, inCall |-> NoCall]

\* no message is published to two processes and no handler is inside a call
Idle ==
    /\ proc = 1
    /\ peer = NoPeer
    /\ stream = <<>>
    /\ taken = 0
    /\ inCall = NoCall

\* the stores an earlier run of the program can have left: empty, or one row
\* of a rule whose topic carries traffic
InitialStores(topics) ==
    { <<>> } \cup
    { << Row(c.type, c.sensorId,
             IF c.type = "double" THEN Double(D21_5) ELSE QString("online")) >> :
        c \in {r \in Rules : r.topic \in topics} }

\* the sensors_seen table an earlier run left: a row for the unconfigured topic
InitialSeen == [t \in Topics |-> IF t = Unconfigured THEN "\"old\"" ELSE NoData]

Init ==
    /\ published \in Traffic
    /\ rows \in InitialStores(published)
    /\ sensors_seen = InitialSeen
    /\ dbOpen = TRUE
    /\ m_lastvalues = [k \in SensorIds |-> NoValue]
    /\ m_seenTopics = <<>>
    /\ upserts = [t \in Topics |-> 0]
    /\ hist = [k \in SensorIds |-> NoMessage]
    /\ anyHist = [t \in Topics |-> NoAnyMessage]
    /\ queries = [k \in SensorIds |-> 0]
    /\ scenario = IF rows = <<>> THEN 0 ELSE Off
    /\ dispatch = NoDispatch
    /\ Idle
    /\ Subscribed

(* ---------------------------- change detection ------------------------- *)

\* SELECT value FROM table WHERE sensorId=... ORDER BY ts DESC LIMIT 1
RowsOf(table, sensorId) ==
    SelectSeq(rows, LAMBDA r : r.table = table /\ r.sensorId = sensorId)

HasRow(table, sensorId) == Len(RowsOf(table, sensorId)) > 0

LatestValue(table, sensorId) ==
    LET rs == RowsOf(table, sensorId) IN rs[Len(rs)].value

\* m_lastvalues.contains(sensorId)
contains(sensorId) == m_lastvalues[sensorId] # NoValue

\* variant: the store is asked on every call, m_lastvalues is not consulted
compareToPreviousValue_noCacheLookup(table, sensorId, newValue, queryOk) ==
    IF queryOk /\ HasRow(table, sensorId)
    THEN LET lastValue == LatestValue(table, sensorId)
         IN  IF newValue.type = "double"
             THEN qFuzzyCompare(toFloat(newValue.n), toFloat(lastValue.n))
             ELSE QVariantEq(newValue, lastValue)
    ELSE FALSE

\* variant: "return true" when no previous value is found
compareToPreviousValue_missIsIdentical(table, sensorId, newValue, queryOk) ==
    IF contains(sensorId)
    THEN QVariantEq(newValue, m_lastvalues[sensorId])
    ELSE IF queryOk /\ HasRow(table, sensorId)
         THEN LET lastValue == LatestValue(table, sensorId)
              IN  IF newValue.type = "double"
                  THEN qFuzzyCompare(toFloat(newValue.n), toFloat(lastValue.n))
                  ELSE QVariantEq(newValue, lastValue)
    ELSE TRUE

\* variant: "return true" after a latest-row query that failed
compareToPreviousValue_failedQueryIsIdentical(table, sensorId, newValue, queryOk) ==
    IF contains(sensorId)
    THEN QVariantEq(newValue, m_lastvalues[sensorId])
    ELSE IF ~queryOk THEN TRUE
    ELSE IF HasRow(table, sensorId)
         THEN LET lastValue == LatestValue(table, sensorId)
              IN  IF newValue.type = "double"
                  THEN qFuzzyCompare(toFloat(newValue.n), toFloat(lastValue.n))
                  ELSE QVariantEq(newValue, lastValue)
    ELSE FALSE

\* compareToPreviousValue: TRUE when the value is identical to the previous one.
\* queryOk is the outcome of squery.exec on a cache miss.
compareToPreviousValue(table, sensorId, newValue, queryOk) ==
    IF contains(sensorId)
    THEN QVariantEq(newValue, m_lastvalues[sensorId])
    ELSE IF queryOk /\ HasRow(table, sensorId)
         THEN LET lastValue == LatestValue(table, sensorId)
              IN  IF newValue.type = "double"
                  THEN qFuzzyCompare(toFloat(newValue.n), toFloat(lastValue.n))
                  ELSE QVariantEq(newValue, lastValue)
    ELSE FALSE

(* ---------------------------- rule messages ---------------------------- *)

\* variant: every payload is parsed as JSON, also for an empty path
Extract_alwaysJson(c, payload) ==
    IF ~fromJsonOk(payload)
    THEN [error |-> "parseError", v |-> Invalid]
    ELSE IF isNull(getValue(payload, c.jsonpath))
         THEN [error |-> "pathNotFound", v |-> Invalid]
    ELSE [error |-> "", v |-> Invalid]

\* the extraction step of handleMessage: the variant its outer "v" holds
\* afterwards, and the error that ended the step ("" when it went through)
Extract(c, payload) ==
    IF c.jsonpath = ""
    THEN [error |-> "", v |-> QString(payload)]
    ELSE IF ~fromJsonOk(payload)
         THEN [error |-> "parseError", v |-> Invalid]
    ELSE IF isNull(getValue(payload, c.jsonpath))
         THEN [error |-> "pathNotFound", v |-> Invalid]
    \* the resolved value is held by a block-local "v"; the outer one stays invalid
    ELSE [error |-> "", v |-> Invalid]

\* variant: the latest row is queried before the conversion is tried
Handle_queryBeforeConvert(c, payload, queryOk, prepareOk, execOk) ==
    LET ex == Extract(c, payload)
        cv == convert(ex.v, c.type)
        same == compareToPreviousValue(c.type, c.sensorId, cv.v, queryOk)
        q == ~contains(c.sensorId)
    IN  IF ex.error # "" THEN [outcome |-> ex.error, queried |-> FALSE, inserts |-> 0, v |-> Invalid]
        ELSE IF ~dbOpen THEN [outcome |-> "dbClosed", queried |-> FALSE, inserts |-> 0, v |-> Invalid]
        ELSE IF ~cv.ok THEN [outcome |-> "convertFailed", queried |-> q, inserts |-> 0, v |-> Invalid]
        ELSE IF same THEN [outcome |-> "skipped", queried |-> q, inserts |-> 0, v |-> cv.v]
        ELSE IF ~prepareOk THEN [outcome |-> "prepareFailed", queried |-> q, inserts |-> 0, v |-> cv.v]
        ELSE IF ~execOk THEN [outcome |-> "execFailed", queried |-> q, inserts |-> 1, v |-> cv.v]
        ELSE [outcome |-> "inserted", queried |-> q, inserts |-> 1, v |-> cv.v]

\* variant: an INSERT that fails is executed a second time, which succeeds
Handle_retryInsert(c, payload, queryOk, prepareOk, execOk) ==
    LET ex == Extract(c, payload)
        cv == convert(ex.v, c.type)
        same == compareToPreviousValue(c.type, c.sensorId, cv.v, queryOk)
        q == ~contains(c.sensorId)
    IN  IF ex.error # "" THEN [outcome |-> ex.error, queried |-> FALSE, inserts |-> 0, v |-> Invalid]
        ELSE IF ~dbOpen THEN [outcome |-> "dbClosed", queried |-> FALSE, inserts |-> 0, v |-> Invalid]
        ELSE IF ~cv.ok THEN [outcome |-> "convertFailed", queried |-> FALSE, inserts |-> 0, v |-> Invalid]
        ELSE IF same THEN [outcome |-> "skipped", queried |-> q, inserts |-> 0, v |-> cv.v]
        ELSE IF ~prepareOk THEN [outcome |-> "prepareFailed", queried |-> q, inserts |-> 0, v |-> cv.v]
        ELSE IF ~execOk THEN [outcome |-> "inserted", queried |-> q, inserts |-> 2, v |-> cv.v]
        ELSE [outcome |-> "inserted", queried |-> q, inserts |-> 1, v |-> cv.v]

\* variant: the previous value is asked of the partition of the other type
Handle_queryOtherPartition(c, payload, queryOk, prepareOk, execOk) ==
    LET ex == Extract(c, payload)
        cv == convert(ex.v, c.type)
        same == compareToPreviousValue(IF c.type = "double" THEN "QString" ELSE "double",
                                       c.sensorId, cv.v, queryOk)
        q == ~contains(c.sensorId)
    IN  IF ex.error # "" THEN [outcome |-> ex.error, queried |-> FALSE, inserts |-> 0, v |-> Invalid]
        ELSE IF ~dbOpen THEN [outcome |-> "dbClosed", queried |-> FALSE, inserts |-> 0, v |-> Invalid]
        ELSE IF ~cv.ok THEN [outcome |-> "convertFailed", queried |-> FALSE, inserts |-> 0, v |-> Invalid]
        ELSE IF same THEN [outcome |-> "skipped", queried |-> q, inserts |-> 0, v |-> cv.v]
        ELSE IF ~prepareOk THEN [outcome |-> "prepareFailed", queried |-> q, inserts |-> 0, v |-> cv.v]
        ELSE IF ~execOk THEN [outcome |-> "execFailed", queried |-> q, inserts |-> 1, v |-> cv.v]
        ELSE [outcome |-> "inserted", queried |-> q, inserts |-> 1, v |-> cv.v]

\* what handleMessage does with one message: the outcome, whether the store was
\* queried for the latest row, how often the INSERT was executed, and the value
\* handed to the comparison and insert
Handle(c, payload, queryOk, prepareOk, execOk) ==
    LET ex == Extract(c, payload)
        cv == convert(ex.v, c.type)
        same == compareToPreviousValue(c.type, c.sensorId, cv.v, queryOk)
        q == ~contains(c.sensorId)
    IN  IF ex.error # "" THEN [outcome |-> ex.error, queried |-> FALSE, inserts |-> 0, v |-> Invalid]
        ELSE IF ~dbOpen THEN [outcome |-> "dbClosed", queried |-> FALSE, inserts |-> 0, v |-> Invalid]
        ELSE IF ~cv.ok THEN [outcome |-> "convertFailed", queried |-> FALSE, inserts |-> 0, v |-> Invalid]
        ELSE IF same THEN [outcome |-> "skipped", queried |-> q, inserts |-> 0, v |-> cv.v]
        ELSE IF ~prepareOk THEN [outcome |-> "prepareFailed", queried |-> q, inserts |-> 0, v |-> cv.v]
        ELSE IF ~execOk THEN [outcome |-> "execFailed", queried |-> q, inserts |-> 1, v |-> cv.v]
        ELSE [outcome |-> "inserted", queried |-> q, inserts |-> 1, v |-> cv.v]

\* the messages of a rule's end-to-end scenario, in order
ScenarioOf(c) ==
    IF c = TextRule THEN <<"online", "offline">>
    ELSE IF c = JsonRule
         THEN <<"{\"value\": 21.5}", "{\"value\": 21.5}",
                "{\"value\": 21.50001}", "{\"value\": 22.0}">>
    ELSE <<"21.5", "21.5", "21.50001", "22.0">>

\* the scenario goes on when its next message is handled with the store open
\* and no store call failing; any other rule message ends it
ScenarioStep(c, payload, queryOk, prepareOk, execOk) ==
    IF /\ scenario # Off
       /\ scenario < Len(ScenarioOf(c))
       /\ payload = ScenarioOf(c)[scenario + 1]
       /\ dbOpen /\ queryOk /\ prepareOk /\ execOk
    THEN scenario + 1
    ELSE Off

\* variant: a message that finds the store closed empties m_lastvalues
handleMessage_closedDropsCache(c, payload, queryOk, prepareOk, execOk) ==
    LET h == Handle(c, payload, queryOk, prepareOk, execOk)
    IN  /\ Len(rows) < MaxRows
        /\ hist' = [hist EXCEPT ![c.sensorId] =
                        [payload |-> payload, outcome |-> h.outcome,
                         queried |-> h.queried, queryFailed |-> h.queried /\ ~queryOk,
                         inserts |-> h.inserts]]
        /\ queries' = IF h.queried /\ queries[c.sensorId] < 2
                      THEN [queries EXCEPT ![c.sensorId] = @ + 1]
                      ELSE queries
        /\ scenario' = ScenarioStep(c, payload, queryOk, prepareOk, execOk)
        /\ IF h.outcome = "inserted"
           THEN /\ rows' = Append(rows, Row(c.type, c.sensorId, h.v))
                /\ m_lastvalues' = [m_lastvalues EXCEPT ![c.sensorId] = h.v]
           ELSE /\ rows' = rows
                /\ m_lastvalues' = IF h.outcome = "dbClosed"
                                   THEN [k \in SensorIds |-> NoValue]
                                   ELSE m_lastvalues
        /\ UNCHANGED <<published, sensors_seen, dbOpen, m_seenTopics, upserts, anyHist>>
        /\ UNCHANGED lifeVars

\* variant: m_lastvalues is not written after the insert
handleMessage_noCacheUpdate(c, payload, queryOk, prepareOk, execOk) ==
    LET h == Handle(c, payload, queryOk, prepareOk, execOk)
    IN  /\ Len(rows) < MaxRows
        /\ hist' = [hist EXCEPT ![c.sensorId] =
                        [payload |-> payload, outcome |-> h.outcome,
                         queried |-> h.queried, queryFailed |-> h.queried /\ ~queryOk,
                         inserts |-> h.inserts]]
        /\ queries' = IF h.queried /\ queries[c.sensorId] < 2
                      THEN [queries EXCEPT ![c.sensorId] = @ + 1]
                      ELSE queries
        /\ scenario' = ScenarioStep(c, payload, queryOk, prepareOk, execOk)
        /\ IF h.outcome = "inserted"
           THEN rows' = Append(rows, Row(c.type, c.sensorId, h.v))
           ELSE UNCHANGED rows
        /\ UNCHANGED <<published, sensors_seen, dbOpen, m_lastvalues, m_seenTopics,
                       upserts, anyHist>>
        /\ UNCHANGED lifeVars

\* variant: m_lastvalues is written before the insert is executed
handleMessage_cacheBeforeExec(c, payload, queryOk, prepareOk, execOk) ==
    LET h == Handle(c, payload, queryOk, prepareOk, execOk)
    IN  /\ Len(rows) < MaxRows
        /\ hist' = [hist EXCEPT ![c.sensorId] =
                        [payload |-> payload, outcome |-> h.outcome,
                         queried |-> h.queried, queryFailed |-> h.queried /\ ~queryOk,
                         inserts |-> h.inserts]]
        /\ queries' = IF h.queried /\ queries[c.sensorId] < 2
                      THEN [queries EXCEPT ![c.sensorId] = @ + 1]
                      ELSE queries
        /\ scenario' = ScenarioStep(c, payload, queryOk, prepareOk, execOk)
        /\ rows' = IF h.outcome = "inserted"
                   THEN Append(rows, Row(c.type, c.sensorId, h.v))
                   ELSE rows
        /\ m_lastvalues' = IF h.outcome \in {"inserted", "execFailed"}
                           THEN [m_lastvalues EXCEPT ![c.sensorId] = h.v]
                           ELSE m_lastvalues
        /\ UNCHANGED <<published, sensors_seen, dbOpen, m_seenTopics, upserts, anyHist>>
        /\ UNCHANGED lifeVars

\* variant: a second handler of a message with the same value runs between the
\* comparison and the insert, so that both insert their row
handleMessage_interleaved(c, payload, queryOk, prepareOk, execOk) ==
    LET h == Handle(c, payload, queryOk, prepareOk, execOk)
    IN  /\ Len(rows) < MaxRows
        /\ hist' = [hist EXCEPT ![c.sensorId] =
                        [payload |-> payload, outcome |-> h.outcome,
                         queried |-> h.queried, queryFailed |-> h.queried /\ ~queryOk,
                         inserts |-> h.inserts]]
        /\ queries' = IF h.queried /\ queries[c.sensorId] < 2
                      THEN [queries EXCEPT ![c.sensorId] = @ + 1]
                      ELSE queries
        /\ scenario' = ScenarioStep(c, payload, queryOk, prepareOk, execOk)
        /\ IF h.outcome = "inserted"
           THEN /\ rows' = Append(Append(rows, Row(c.type, c.sensorId, h.v)),
                                  Row(c.type, c.sensorId, h.v))
                /\ m_lastvalues' = [m_lastvalues EXCEPT ![c.sensorId] = h.v]
           ELSE UNCHANGED <<rows, m_lastvalues>>
        /\ UNCHANGED <<published, sensors_seen, dbOpen, m_seenTopics, upserts, anyHist>>
        /\ UNCHANGED lifeVars

\* variant: the row of a message is put before the rows the partition holds
handleMessage_prepend(c, payload, queryOk, prepareOk, execOk) ==
    LET h == Handle(c, payload, queryOk, prepareOk, execOk)
    IN  /\ Len(rows) < MaxRows
        /\ hist' = [hist EXCEPT ![c.sensorId] =
                        [payload |-> payload, outcome |-> h.outcome,
                         queried |-> h.queried, queryFailed |-> h.queried /\ ~queryOk,
                         inserts |-> h.inserts]]
        /\ queries' = IF h.queried /\ queries[c.sensorId] < 2
                      THEN [queries EXCEPT ![c.sensorId] = @ + 1]
                      ELSE queries
        /\ scenario' = ScenarioStep(c, payload, queryOk, prepareOk, execOk)
        /\ IF h.outcome = "inserted"
           THEN /\ rows' = <<Row(c.type, c.sensorId, h.v)>> \o rows
                /\ m_lastvalues' = [m_lastvalues EXCEPT ![c.sensorId] = h.v]
           ELSE UNCHANGED <<rows, m_lastvalues>>
        /\ UNCHANGED <<published, sensors_seen, dbOpen, m_seenTopics, upserts, anyHist>>
        /\ UNCHANGED lifeVars

handleMessage(c, payload, queryOk, prepareOk, execOk) ==
    LET h == Handle(c, payload, queryOk, prepareOk, execOk)
    IN  /\ Len(rows) < MaxRows
        /\ hist' = [hist EXCEPT ![c.sensorId] =
                        [payload |-> payload, outcome |-> h.outcome,
                         queried |-> h.queried, queryFailed |-> h.queried /\ ~queryOk,
                         inserts |-> h.inserts]]
        /\ queries' = IF h.queried /\ queries[c.sensorId] < 2
                      THEN [queries EXCEPT ![c.sensorId] = @ + 1]
                      ELSE queries
        /\ scenario' = ScenarioStep(c, payload, queryOk, prepareOk, execOk)
        /\ IF h.outcome = "inserted"
           THEN /\ rows' = Append(rows, Row(c.type, c.sensorId, h.v))
                /\ m_lastvalues' = [m_lastvalues EXCEPT ![c.sensorId] = h.v]
           ELSE UNCHANGED <<rows, m_lastvalues>>
        /\ UNCHANGED <<published, sensors_seen, dbOpen, m_seenTopics, upserts, anyHist>>
        /\ UNCHANGED lifeVars

(* ---------------------------- catch-all messages ----------------------- *)

\* variant: no topic counts as seen
wasTopicSeen_never(topic) == FALSE

\* variant: only the topic appended last counts as seen
wasTopicSeen_lastOnly(topic) ==
    m_seenTopics # <<>> /\ m_seenTopics[Len(m_seenTopics)] = topic

\* wasTopicSeen
wasTopicSeen(topic) ==
    \E i \in DOMAIN m_seenTopics : m_seenTopics[i] = topic

\* variant: the topic is not appended to m_seenTopics
HandleAny_noAppend(topic, payload, prepareOk, execOk) ==
    IF wasTopicSeen(topic)
    THEN [append |-> FALSE, upsert |-> FALSE, written |-> FALSE]
    ELSE [append |-> FALSE,
          upsert |-> dbOpen /\ prepareOk,
          written |-> dbOpen /\ prepareOk /\ execOk /\ jsonbOk(payload)]

\* variant: the topic is appended only after the upsert has written the row
HandleAny_appendOnSuccess(topic, payload, prepareOk, execOk) ==
    IF wasTopicSeen(topic)
    THEN [append |-> FALSE, upsert |-> FALSE, written |-> FALSE]
    ELSE [append |-> dbOpen /\ prepareOk /\ execOk /\ jsonbOk(payload),
          upsert |-> dbOpen /\ prepareOk,
          written |-> dbOpen /\ prepareOk /\ execOk /\ jsonbOk(payload)]

\* what handleAnyMessage does with one message: whether it appends the topic,
\* whether it executes the upsert, and whether the upsert writes the row (the
\* statement fails on a payload the jsonb column does not accept)
HandleAny(topic, payload, prepareOk, execOk) ==
    IF wasTopicSeen(topic)
    THEN [append |-> FALSE, upsert |-> FALSE, written |-> FALSE]
    ELSE [append |-> TRUE,
          upsert |-> dbOpen /\ prepareOk,
          written |-> dbOpen /\ prepareOk /\ execOk /\ jsonbOk(payload)]

handleAnyMessage(topic, payload, prepareOk, execOk) ==
    LET h == HandleAny(topic, payload, prepareOk, execOk)
    IN  /\ Len(m_seenTopics) < MaxSeen
        /\ upserts[topic] < MaxUpserts
        /\ anyHist' = [anyHist EXCEPT ![topic] =
                          [first |-> IF @.count = 0 THEN payload ELSE @.first,
                           payload |-> payload,
                           count |-> IF @.count < 2 THEN @.count + 1 ELSE 2]]
        /\ m_seenTopics' = IF h.append THEN Append(m_seenTopics, topic) ELSE m_seenTopics
        /\ upserts' = IF h.upsert THEN [upserts EXCEPT ![topic] = @ + 1] ELSE upserts
        /\ sensors_seen' =
              IF h.written THEN [sensors_seen EXCEPT ![topic] = JsonbText[payload]]
              ELSE sensors_seen
        /\ UNCHANGED <<published, rows, dbOpen, m_lastvalues, hist, queries, scenario,
                       dispatch>>
        /\ UNCHANGED lifeVars

(* ---------------------------- environment ------------------------------ *)

\* the connection to the store is lost or comes back
dbChange ==
    /\ dbOpen' = ~dbOpen
    /\ pc = "running"
    /\ UNCHANGED ingestVars
    /\ UNCHANGED lifeVars

(* ---------------------------- specification ---------------------------- *)

\* a message arrives on the subscription of a rule and the lambda connected
\* for the rule calls handleMessage, which takes the config from the sender
RuleMessage ==
    \E i \in DOMAIN m_mqttTopicConfig :
        LET c == m_mqttTopicConfig[i]
        IN  \E payload \in Payloads(c.topic) : \E fault \in StoreFaults :
                /\ c.topic \in published
                /\ pc = "running" /\ clientState = "Connected"
                /\ i \in DOMAIN m_subscriptions
                /\ handleMessage(senderConfig(c.topic), payload,
                                 fault # "query", fault # "prepare", fault # "exec")
                /\ dispatch' = [handler |-> c.sensorId,
                                config |-> senderConfig(c.topic).sensorId]
                /\ UNCHANGED shareVars

\* a message arrives on the "#" subscription
AnyMessage ==
    \E topic \in published : \E payload \in AnyPayloads(topic) :
        \E fault \in StoreFaults \ {"query"} :
            /\ pc = "running" /\ clientState = "Connected" /\ HasSubscription("#")
            /\ handleAnyMessage(topic, payload, fault # "prepare", fault # "exec")
            /\ UNCHANGED shareVars

Next == RuleMessage \/ AnyMessage \/ dbChange

Spec == Init /\ [][Next]_vars

(* ---------------------------- process lifecycle ------------------------ *)

\* the slot main() connects to errorOccured: the signal is emitted, and the
\* process exits with the exit code unless it is 0
errorOccured(error, exitcode, path) ==
    /\ signals' = Append(signals, [error |-> error, exitcode |-> exitcode])
    /\ IF exitcode # 0
       THEN pc' = "exited" /\ exited' = [path |-> path, code |-> exitcode]
       ELSE UNCHANGED <<pc, exited>>

\* ::exit(code)
exit(code, path) ==
    /\ pc' = "exited"
    /\ exited' = [path |-> path, code |-> code]

\* m_settings->value("version", 3).toInt()
version == IF ini.version = NoVersion THEN 3 ELSE ini.version

\* variant: the version is not looked at
SettingsOk_anyVersion == ini.hostname # ""

\* the checks of parse that come before the store is opened: the hostname is
\* not empty and the version is one of 3, 4, 5
SettingsOk ==
    ini.hostname # "" /\ version \in {3, 4, 5}

\* what parse writes to m_lastError when one of these checks fails
lastError ==
    IF ini.hostname = "" THEN "Error: hostname is empty!"
    ELSE "Error: invalid MQTT version: " \o ToString(ini.version)

\* Mqtt2SqlConfig::isValid()
isValid == m_settings # "nullptr"

\* variant: a store that does not open makes parse return false
parse_storeFailureReturnsFalse(dbOpens) ==
    IF ~SettingsOk \/ ~dbOpens THEN "false" ELSE "true"

\* Mqtt2SqlConfig::parse: "false" for an empty hostname or an unknown version,
\* "exit" when the store does not open, else "true"
parse(dbOpens) ==
    IF ~SettingsOk THEN "false"
    ELSE IF ~dbOpens THEN "exit"
    ELSE "true"

\* main() up to the construction of the subscriber
main(dbOpens) ==
    /\ pc = "main"
    /\ IF ini.showVersion
       THEN exit(0, "version") /\ UNCHANGED dbOpen
       ELSE CASE parse(dbOpens) = "false" ->
                     exit(configErrorExitCode, "config") /\ UNCHANGED dbOpen
              [] parse(dbOpens) = "exit" ->
                     exit(storeExitCode, "store") /\ dbOpen' = FALSE
              [] OTHER ->
                     pc' = "parsed" /\ dbOpen' = TRUE /\ UNCHANGED exited
    /\ opened' = IF ini.showVersion \/ ~SettingsOk THEN opened
                 ELSE IF dbOpens THEN "ok" ELSE "failed"
    /\ m_settings' = IF ini.showVersion THEN m_settings
                     ELSE IF SettingsOk THEN "set" ELSE "nullptr"
    /\ m_lastError' = IF ini.showVersion \/ SettingsOk THEN m_lastError ELSE lastError
    /\ UNCHANGED <<ini, clientState, connects, signals, notified, m_subscriptions, cleanups>>
    /\ UNCHANGED ingestVars

\* variant: the constructor subscribes right after it told the client to connect
MqttSubscriber_subscribeAtOnce(dbOpens) ==
    /\ pc = "parsed"
    /\ dbOpen' = dbOpens
    /\ opened' = IF dbOpens THEN "ok" ELSE "failed"
    /\ IF ~dbOpens
       THEN exit(storeExitCode, "store") /\ UNCHANGED <<clientState, connects, m_subscriptions>>
       ELSE /\ clientState' = "Connecting"
            /\ connects' = connects + 1
            /\ m_subscriptions' = Filters
            /\ pc' = "running"
            /\ UNCHANGED exited
    /\ UNCHANGED <<ini, signals, notified, m_lastError, m_settings, cleanups>>
    /\ UNCHANGED ingestVars

\* variant: the client is told to connect before the store is opened
MqttSubscriber_connectFirst(dbOpens) ==
    /\ pc = "parsed"
    /\ dbOpen' = dbOpens
    /\ opened' = IF dbOpens THEN "ok" ELSE "failed"
    /\ clientState' = "Connecting"
    /\ connects' = connects + 1
    /\ IF ~dbOpens
       THEN exit(storeExitCode, "store")
       ELSE pc' = "running" /\ UNCHANGED exited
    /\ UNCHANGED <<ini, signals, notified, m_subscriptions, m_lastError, m_settings,
                   cleanups>>
    /\ UNCHANGED ingestVars

\* the constructor: the store is opened, the client is set up and told to connect
MqttSubscriber(dbOpens) ==
    /\ pc = "parsed"
    /\ dbOpen' = dbOpens
    /\ opened' = IF dbOpens THEN "ok" ELSE "failed"
    /\ IF ~dbOpens
       THEN exit(storeExitCode, "store") /\ UNCHANGED <<clientState, connects>>
       ELSE /\ clientState' = "Connecting"
            /\ connects' = connects + 1
            /\ pc' = "running"
            /\ UNCHANGED exited
    /\ UNCHANGED <<ini, signals, notified, m_subscriptions, m_lastError, m_settings,
                   cleanups>>
    /\ UNCHANGED ingestVars

\* variant: the rules are subscribed, "#" is not
subscribe_noCatchAll(failAt) ==
    IF failAt = 0 \/ failAt > Len(m_mqttTopicConfig)
    THEN /\ m_subscriptions' = SubSeq(Filters, 1, Len(m_mqttTopicConfig))
         /\ UNCHANGED <<signals, pc, exited>>
    ELSE /\ m_subscriptions' = SubSeq(Filters, 1, failAt - 1)
         /\ errorOccured("Failed to subscribe to " \o Filters[failAt],
                         subscribeExitCode, "subscribe")

\* variant: the refused subscription is appended to m_subscriptions as well
subscribe_appendRefused(failAt) ==
    IF failAt = 0
    THEN m_subscriptions' = Filters /\ UNCHANGED <<signals, pc, exited>>
    ELSE /\ m_subscriptions' = SubSeq(Filters, 1, failAt)
         /\ errorOccured("Failed to subscribe to " \o Filters[failAt],
                         subscribeExitCode, "subscribe")

\* subscribe(): the filters are subscribed in order; failAt is the first filter
\* the client refuses (0: none), whose errorOccured ends the process
subscribe(failAt) ==
    IF failAt = 0
    THEN m_subscriptions' = Filters /\ UNCHANGED <<signals, pc, exited>>
    ELSE /\ m_subscriptions' = SubSeq(Filters, 1, failAt - 1)
         /\ errorOccured("Failed to subscribe to " \o Filters[failAt],
                         subscribeExitCode, "subscribe")

\* the broker accepts the connection: QMqttClient::connected
connected ==
    \E failAt \in 0..Len(Filters) :
        /\ pc = "running" /\ clientState = "Connecting"
        \* a filter that is subscribed already is not refused
        /\ \A j \in 1..(failAt - 1) : Filters[j] # Filters[failAt]
        /\ clientState' = "Connected"
        /\ subscribe(failAt)
        /\ UNCHANGED <<ini, connects, notified, dbOpen, opened, m_lastError, m_settings,
                       cleanups>>
        /\ UNCHANGED ingestVars

\* variant: the signal is emitted for NoError too
onConnectionError_emitAlways(error) ==
    /\ pc = "running"
    /\ notified' = error
    /\ errorOccured(qMqttClientErrorToString[error], connectionExitCode, "connection")
    /\ UNCHANGED <<ini, clientState, connects, m_subscriptions, dbOpen, opened,
                   m_lastError, m_settings, cleanups>>
    /\ UNCHANGED ingestVars

\* variant: the handler tells the client to connect again instead of reporting
onConnectionError_reconnect(error) ==
    /\ pc = "running" /\ connects < 2
    /\ notified' = error
    /\ IF error # "NoError"
       THEN clientState' = "Connecting" /\ connects' = connects + 1
       ELSE UNCHANGED <<clientState, connects>>
    /\ UNCHANGED <<ini, pc, exited, signals, m_subscriptions, dbOpen, opened,
                   m_lastError, m_settings, cleanups>>
    /\ UNCHANGED ingestVars

\* onConnectionError
onConnectionError(error) ==
    /\ pc = "running"
    /\ notified' = error
    /\ IF error # "NoError"
       THEN errorOccured(qMqttClientErrorToString[error], connectionExitCode, "connection")
       ELSE UNCHANGED <<signals, pc, exited>>
    /\ UNCHANGED <<ini, clientState, connects, m_subscriptions, dbOpen, opened,
                   m_lastError, m_settings, cleanups>>
    /\ UNCHANGED ingestVars

\* QMqttClient::errorChanged
errorChanged == \E error \in ClientErrors : onConnectionError(error)

\* the connection ends without an error being reported
disconnected ==
    /\ pc = "running" /\ clientState \in {"Connecting", "Connected"}
    /\ clientState' = "Disconnected"
    /\ UNCHANGED <<ini, pc, exited, connects, signals, notified, m_subscriptions, dbOpen,
                   opened, m_lastError, m_settings, cleanups>>
    /\ UNCHANGED ingestVars

\* variant: the DELETE of outdated rows, taking every row there is as outdated
cleanup_deleteOutdated ==
    /\ pc = "running" /\ cleanups < MaxCleanups
    /\ cleanups' = cleanups + 1
    /\ rows' = <<>>
    /\ UNCHANGED <<ini, pc, exited, clientState, connects, signals, notified,
                   m_subscriptions, dbOpen, opened, m_lastError, m_settings>>
    /\ UNCHANGED <<published, sensors_seen, m_lastvalues, m_seenTopics, upserts, hist,
                   anyHist, queries, scenario, dispatch>>
    /\ UNCHANGED shareVars

\* MqttSubscriber::cleanup, the slot of m_cleanupTimer's timeout: its body is empty
cleanup ==
    /\ pc = "running" /\ cleanups < MaxCleanups
    /\ cleanups' = cleanups + 1
    /\ UNCHANGED <<ini, pc, exited, clientState, connects, signals, notified,
                   m_subscriptions, dbOpen, opened, m_lastError, m_settings>>
    /\ UNCHANGED ingestVars

\* the process is started: nothing is open; the topic of TextRule carries
\* traffic in the runs of two of the starts, one for each config table
Start ==
    /\ ini \in Inis
    /\ pc = "main"
    /\ exited = NotExited
    /\ clientState = "Disconnected"
    /\ connects = 0
    /\ signals = <<>>
    /\ notified = "None"
    /\ m_subscriptions = <<>>
    /\ opened = "none"
    /\ m_lastError = ""
    /\ m_settings = "nullptr"
    /\ cleanups = 0
    /\ dbOpen = FALSE
    /\ published = IF ini \in {StandardIni, SharedIni} THEN {TextRule.topic} ELSE {}
    /\ rows = <<>>
    /\ sensors_seen = InitialSeen
    /\ m_lastvalues = [k \in SensorIds |-> NoValue]
    /\ m_seenTopics = <<>>
    /\ upserts = [t \in Topics |-> 0]
    /\ hist = [k \in SensorIds |-> NoMessage]
    /\ anyHist = [t \in Topics |-> NoAnyMessage]
    /\ queries = [k \in SensorIds |-> 0]
    /\ scenario = Off
    /\ dispatch = NoDispatch
    /\ Idle

Startup == \E dbOpens \in BOOLEAN : main(dbOpens)

Construction == \E dbOpens \in BOOLEAN : MqttSubscriber(dbOpens)

LifecycleNext ==
    \/ Startup \/ Construction \/ connected \/ errorChanged \/ disconnected
    \/ RuleMessage \/ AnyMessage \/ cleanup

Lifecycle == Start /\ [][LifecycleNext]_vars

(* ---------------------------- two processes, one store ----------------- *)

\* the broker publishes a message on the topic of TextRule; both processes
\* are subscribed to it and get it, each in the order of publication
publish ==
    \E payload \in Payloads(TextRule.topic) :
        /\ Len(stream) < MaxPublished
        /\ stream' = Append(stream, payload)
        /\ UNCHANGED <<published, rows, sensors_seen, dbOpen, m_lastvalues, m_seenTopics,
                       upserts, hist, anyHist, queries, scenario, dispatch,
                       proc, peer, taken, inCall>>
        /\ UNCHANGED lifeVars

\* variant: a message is handed to its handler while another handler of the
\* process is inside a store call
callStore_reentrant ==
    /\ pc = "running" /\ clientState = "Connected"
    /\ \/ /\ taken < Len(stream) /\ HasSubscription(TextRule.topic)
          /\ inCall' = [handler |-> "handleMessage", topic |-> TextRule.topic,
                        payload |-> stream[taken + 1]]
          /\ taken' = taken + 1
       \/ /\ taken > 0 /\ HasSubscription("#")
          /\ ~wasTopicSeen(TextRule.topic)
          /\ inCall' = [handler |-> "handleAnyMessage", topic |-> TextRule.topic,
                        payload |-> stream[taken]]
          /\ taken' = taken
    /\ UNCHANGED <<published, rows, sensors_seen, dbOpen, m_lastvalues, m_seenTopics,
                   upserts, hist, anyHist, queries, scenario, dispatch,
                   proc, peer, stream>>
    /\ UNCHANGED lifeVars

\* the event loop of the process hands its next message to the handler: the
\* next published message to handleMessage, or the message handleMessage had
\* last to handleAnyMessage, "#" matching the rule's topic too, when the topic
\* was not seen (for a seen topic handleAnyMessage returns before any store
\* call); the handler goes into its store call
callStore ==
    /\ inCall = NoCall
    /\ pc = "running" /\ clientState = "Connected"
    /\ \/ /\ taken < Len(stream) /\ HasSubscription(TextRule.topic)
          /\ inCall' = [handler |-> "handleMessage", topic |-> TextRule.topic,
                        payload |-> stream[taken + 1]]
          /\ taken' = taken + 1
       \/ /\ taken > 0 /\ HasSubscription("#")
          /\ ~wasTopicSeen(TextRule.topic)
          /\ inCall' = [handler |-> "handleAnyMessage", topic |-> TextRule.topic,
                        payload |-> stream[taken]]
          /\ taken' = taken
    /\ UNCHANGED <<published, rows, sensors_seen, dbOpen, m_lastvalues, m_seenTopics,
                   upserts, hist, anyHist, queries, scenario, dispatch,
                   proc, peer, stream>>
    /\ UNCHANGED lifeVars

\* the store call returns, with its result or with an error of the
\* statement, and the handler runs to its end
storeReturns ==
    \E fault \in {"none", "exec"} :
        /\ inCall # NoCall
        /\ IF inCall.handler = "handleMessage"
           THEN /\ handleMessage(senderConfig(inCall.topic), inCall.payload,
                                 TRUE, TRUE, fault # "exec")
                /\ dispatch' = [handler |-> senderConfig(inCall.topic).sensorId,
                                config |-> senderConfig(inCall.topic).sensorId]
           ELSE handleAnyMessage(inCall.topic, inCall.payload, TRUE, fault # "exec")
        /\ inCall' = NoCall
        /\ UNCHANGED <<proc, peer, stream, taken>>

\* the step the model looks at next is one of the other process
switch ==
    /\ proc' = 3 - proc
    /\ peer' = [m_lastvalues |-> m_lastvalues, m_seenTopics |-> m_seenTopics,
                taken |-> taken, inCall |-> inCall]
    /\ m_lastvalues' = peer.m_lastvalues
    /\ m_seenTopics' = peer.m_seenTopics
    /\ taken' = peer.taken
    /\ inCall' = peer.inCall
    /\ UNCHANGED <<published, rows, sensors_seen, dbOpen, upserts, hist, anyHist,
                   queries, scenario, dispatch, stream>>
    /\ UNCHANGED lifeVars

\* two processes started on the standard configuration and an empty store,
\* both connected and subscribed
TwoInit ==
    /\ published = {TextRule.topic}
    /\ rows = <<>>
    /\ sensors_seen = InitialSeen
    /\ dbOpen = TRUE
    /\ m_lastvalues = [k \in SensorIds |-> NoValue]
    /\ m_seenTopics = <<>>
    /\ upserts = [t \in Topics |-> 0]
    /\ hist = [k \in SensorIds |-> NoMessage]
    /\ anyHist = [t \in Topics |-> NoAnyMessage]
    /\ queries = [k \in SensorIds |-> 0]
    /\ scenario = Off
    /\ dispatch = NoDispatch
    /\ Idle
    /\ Subscribed

TwoNext == publish \/ callStore \/ storeReturns \/ switch

TwoProcesses == TwoInit /\ [][TwoNext]_vars

(* ---------------------------- properties ------------------------------- *)

\* the rule whose topic carries the traffic of this run, when there is one
Fed(c) == c.topic \in published

\* the value a payload resolves to under a rule: the payload text for an empty
\* path, else the member the path selects (Invalid when there is none)
Resolved(c, payload) ==
    IF c.jsonpath = "" THEN QString(payload)
    ELSE IF fromJsonOk(payload) THEN getValue(payload, c.jsonpath)
    ELSE Invalid

\* the payload carries an observation for the rule: it resolves to a value
\* that converts to the rule's type
IsObservation(c, payload) ==
    /\ ~isNull(Resolved(c, payload))
    /\ convert(Resolved(c, payload), c.type).ok

\* a row of the rule's key is inserted in this step
Inserts(c) ==
    /\ Len(rows') = Len(rows) + 1
    /\ rows'[Len(rows')].sensorId = c.sensorId

\* C1: handleMessage never inserts, for a key, a row whose value equals the
\* value of the most recent row stored for that key (the latest-row query, when
\* one is issued, not failing), so no two consecutive rows of one key hold
\* equal values.
C1_NeverInsertsEqualRow ==
    [][\A c \in Rules :
          (/\ Inserts(c)
           /\ HasRow(c.type, c.sensorId)
           /\ ~hist'[c.sensorId].queryFailed)
              => rows'[Len(rows')].value # LatestValue(c.type, c.sensorId)]_vars

\* a message of the rule is handled in this step and is not dropped because
\* of the store (closed, or the insert failing to prepare or execute)
HandledByStore(c) ==
    /\ hist'[c.sensorId] # hist[c.sensorId]
    /\ hist'[c.sensorId].outcome \notin {"dbClosed", "prepareFailed", "execFailed"}

\* C2: the first observation of a key (no cache entry, no row of the key in the
\* store) is treated as changed: handleMessage inserts a row for it.
C2_FirstObservationInserted ==
    [][\A c \in Rules :
          (/\ HandledByStore(c)
           /\ ~contains(c.sensorId) /\ ~HasRow(c.type, c.sensorId)
           /\ IsObservation(c, hist'[c.sensorId].payload))
              => /\ hist'[c.sensorId].outcome = "inserted"
                 /\ Inserts(c)]_vars

\* C3 as stated: a message that repeats the payload of the immediately
\* preceding message of its key is not persisted, whatever became of that
\* preceding message.
C3_RepeatNeverPersisted ==
    [][\A c \in Rules :
          Inserts(c) => hist'[c.sensorId].payload # hist[c.sensorId].payload]_vars

\* C3 as amended: a message that repeats the payload of the immediately
\* preceding message of its key is not persisted when that preceding message
\* was persisted or was skipped as unchanged, and the latest-row query (issued
\* when the key has no cache entry) does not fail.
C3_RepeatAfterPersistOrSkip ==
    \A c \in Rules : \A queryOk, prepareOk, execOk \in BOOLEAN :
        (/\ Fed(c)
         /\ hist[c.sensorId].outcome \in {"inserted", "skipped"}
         /\ (contains(c.sensorId) \/ queryOk))
            => Handle(c, hist[c.sensorId].payload, queryOk, prepareOk, execOk).outcome
                   # "inserted"

\* a key whose preceding message was skipped against the store's latest row,
\* and whose repeat is skipped again
C3_Witness ==
    \E c \in Rules :
        /\ Fed(c) /\ dbOpen
        /\ hist[c.sensorId].outcome = "skipped" /\ hist[c.sensorId].queried
        /\ Handle(c, hist[c.sensorId].payload, TRUE, TRUE, TRUE).outcome = "skipped"

\* C4: after a successful insert of a value for a key, the next change
\* detection for that key with the identical value finds it unchanged in
\* m_lastvalues and issues no query to the store.
C4_CacheHitAfterInsert ==
    \A c \in Rules : \A queryOk, prepareOk, execOk \in BOOLEAN :
        (Fed(c) /\ dbOpen /\ hist[c.sensorId].outcome = "inserted")
            => LET h == Handle(c, hist[c.sensorId].payload, queryOk, prepareOk, execOk)
               IN  h.outcome = "skipped" /\ ~h.queried

\* a key whose value was inserted and then repeated: the repeat was skipped
\* without a query
C4_Witness ==
    \E c \in Rules :
        /\ hist[c.sensorId].outcome = "skipped" /\ ~hist[c.sensorId].queried
        /\ HasRow(c.type, c.sensorId)
        /\ QVariantEq(m_lastvalues[c.sensorId], convert(QString(hist[c.sensorId].payload), c.type).v)

\* C5: for the floating-point rule with JSON path "$.value", from an empty
\* store and cache, the messages 21.5, 21.5, 21.50001, 22.0 persist 21.5 on
\* the first message, nothing on the second and third, and 22.0 on the fourth.
C5_ScenarioA ==
    Fed(JsonRule) =>
        /\ scenario \in {1, 2, 3} => rows = << Row("double", 2, Double(D21_5)) >>
        /\ scenario = 4 => rows = << Row("double", 2, Double(D21_5)),
                                     Row("double", 2, Double(D22_0)) >>

\* C6: for a rule with a JSON path, a payload that parses and whose path
\* resolves to a non-null value goes to change detection as that value
\* converted to the rule's type when it converts, and fails at the conversion
\* exactly when it does not.
C6_ResolvedValueHandedOn ==
    \A c \in Rules :
        LET payload == hist[c.sensorId].payload
        IN  (/\ c.jsonpath # "" /\ payload # NoData
             /\ fromJsonOk(payload) /\ ~isNull(getValue(payload, c.jsonpath))
             /\ hist[c.sensorId].outcome # "dbClosed")
                => (hist[c.sensorId].outcome = "convertFailed"
                        <=> ~convert(getValue(payload, c.jsonpath), c.type).ok)

\* C7 as stated: for a rule with an empty path, whatever its type, no message
\* is dropped at the extraction or conversion step.
C7_EmptyPathNeverDropped ==
    \A c \in Rules :
        c.jsonpath = ""
            => hist[c.sensorId].outcome \notin {"parseError", "pathNotFound", "convertFailed"}

\* C7 as amended: for a rule with an empty path the extraction step always
\* goes through and yields the payload as text; the text is then converted to
\* the rule's type, so a text rule drops no message there, and a rule of
\* another type drops exactly the messages whose text does not convert.
C7_EmptyPathDroppedIffNotConvertible ==
    \A c \in Rules : \A payload \in Payloads(c.topic) :
        \A queryOk, prepareOk, execOk \in BOOLEAN :
            (Fed(c) /\ dbOpen /\ c.jsonpath = "")
                => LET h == Handle(c, payload, queryOk, prepareOk, execOk)
                   IN  /\ Extract(c, payload) = [error |-> "", v |-> QString(payload)]
                       /\ h.outcome \notin {"parseError", "pathNotFound"}
                       /\ h.outcome = "convertFailed"
                              <=> (c.type = "double" /\ payload \notin DOMAIN TextDouble)
                       /\ h.outcome # "convertFailed"
                              => h.v = (IF c.type = "double"
                                        THEN Double(TextDouble[payload])
                                        ELSE QString(payload))

\* a message of an empty-path rule of type double was dropped at the conversion
C7_Witness ==
    \E c \in Rules :
        /\ c.jsonpath = "" /\ c.type # "QString"
        /\ hist[c.sensorId].outcome = "convertFailed"

\* the value of the store's latest row of a key, NoValue when it has none
LastPersisted(c) ==
    IF HasRow(c.type, c.sensorId) THEN LatestValue(c.type, c.sensorId) ELSE NoValue

\* C8: for the text rule with an empty path, from an empty store, "online" then
\* "offline" give the two rows "online", "offline"; in general, the store
\* taking the calls, a payload that differs from the last persisted one is
\* inserted as it is.
C8_ScenarioB ==
    Fed(TextRule) =>
        /\ scenario = 1 => rows = << Row("QString", 1, QString("online")) >>
        /\ scenario = 2 => rows = << Row("QString", 1, QString("online")),
                                     Row("QString", 1, QString("offline")) >>
        /\ \A payload \in Payloads(TextRule.topic) :
               (dbOpen /\ QString(payload) # LastPersisted(TextRule))
                   => LET h == Handle(TextRule, payload, TRUE, TRUE, TRUE)
                      IN  h.outcome = "inserted" /\ h.v = QString(payload)

\* both messages of the scenario were handled
C8_Witness == Fed(TextRule) /\ scenario = 2 /\ Len(rows) = 2

jsonb(payload) == IF jsonbOk(payload) THEN JsonbText[payload] ELSE NoData

C11_NoSeenRowForConfiguredTopic ==
    \A c \in Rules : sensors_seen[c.topic] = NoData

\* the values the payloads of a rule convert to, where they convert
ValuesOf(c) ==
    { convert(Resolved(c, payload), c.type).v :
          payload \in {p \in Payloads(c.topic) : IsObservation(c, p)} }

\* C12: for a floating-point value the comparison against a cache entry gives
\* what the comparison against the store's latest row gives for the same pair
\* of values (the approximate equality of single-precision floats); for text
\* both are exact.
C12_SameRelationOnBothPaths ==
    \A c \in Rules :
        (Fed(c) /\ contains(c.sensorId))
            => \A v \in ValuesOf(c) :
                   compareToPreviousValue(c.type, c.sensorId, v, TRUE)
                       = IF c.type = "double"
                         THEN qFuzzyCompare(toFloat(v.n), toFloat(m_lastvalues[c.sensorId].n))
                         ELSE QVariantEq(v, m_lastvalues[c.sensorId])


\* C13: on a cache miss the latest row of the key is queried and seeds the
\* cache, so the store is asked for the latest row of a sensor at most once.
C13_AtMostOneQueryPerSensor ==
    \A c \in Rules : queries[c.sensorId] <= 1


\* C14 as stated: every cache entry equals the value of the latest row of its
\* key in the store.
C14_CacheEqualsLatestRow ==
    \A c \in Rules :
        contains(c.sensorId)
            => /\ HasRow(c.type, c.sensorId)
               /\ m_lastvalues[c.sensorId] = LatestValue(c.type, c.sensorId)

\* C14 as amended: every cache entry is the value that was handed to the most
\* recent successful insert of its key, of which the store's latest row of the
\* key holds the column's rendering (a double rounded to single precision);
\* the entry changes only in a step that inserts a row of the key, and a
\* message whose insert fails to prepare or execute leaves the cache as it was.
C14_CacheHoldsInsertedValue ==
    /\ [](\A c \in Rules :
            contains(c.sensorId)
                => /\ HasRow(c.type, c.sensorId)
                   /\ stored(m_lastvalues[c.sensorId]) = LatestValue(c.type, c.sensorId))
    /\ [][\A c \in Rules :
            /\ m_lastvalues'[c.sensorId] # m_lastvalues[c.sensorId]
                  => /\ hist'[c.sensorId].outcome = "inserted"
                     /\ Inserts(c)
            /\ Inserts(c)
                  => rows'[Len(rows')].value = stored(m_lastvalues'[c.sensorId])
            /\ (/\ hist'[c.sensorId] # hist[c.sensorId]
                /\ hist'[c.sensorId].outcome \in {"prepareFailed", "execFailed"})
                  => m_lastvalues' = m_lastvalues /\ rows' = rows]_vars

\* a key has a cache entry, and its latest message, carrying another value,
\* failed at the insert: the entry is still the value of the earlier insert
C14_Witness ==
    \E c \in Rules :
        /\ contains(c.sensorId)
        /\ hist[c.sensorId].outcome \in {"prepareFailed", "execFailed"}
        /\ m_lastvalues[c.sensorId] # convert(QString(hist[c.sensorId].payload), c.type).v
        /\ stored(m_lastvalues[c.sensorId]) = LatestValue(c.type, c.sensorId)


\* the outcomes of a message dropped by a per-message error
MessageErrors == {"parseError", "pathNotFound", "convertFailed"}

\* C15: a message dropped because its payload is malformed JSON, its path
\* resolves to nothing, or its value does not convert leaves the rows of the
\* type partitions and the cache as they were, and neither queries the store
\* nor writes to it.
C15_ErrorDropLeavesStateAlone ==
    /\ [](\A c \in Rules : \A payload \in Payloads(c.topic) :
            \A queryOk, prepareOk, execOk \in BOOLEAN :
                LET h == Handle(c, payload, queryOk, prepareOk, execOk)
                IN  h.outcome \in MessageErrors => ~h.queried /\ isNull(h.v))
    /\ [][\A c \in Rules :
            (/\ hist'[c.sensorId] # hist[c.sensorId]
             /\ hist'[c.sensorId].outcome \in MessageErrors)
                => /\ rows' = rows /\ m_lastvalues' = m_lastvalues
                   /\ sensors_seen' = sensors_seen
                   /\ queries' = queries /\ ~hist'[c.sensorId].queried]_vars

\* a key with a row and a cache entry whose latest message was dropped at the
\* conversion: still the one row, and the one query that preceded its insert
C15_Witness ==
    \E c \in Rules :
        /\ hist[c.sensorId].outcome = "convertFailed"
        /\ contains(c.sensorId) /\ Len(rows) = 1
        /\ queries[c.sensorId] = 1


\* the previous value of a rule's key: its cache entry, else the store's latest
\* row of the key, else NoValue
PreviousValue(c) ==
    IF contains(c.sensorId) THEN m_lastvalues[c.sensorId] ELSE LastPersisted(c)

\* the payload carries a value that differs from the previous value of the key
\* (for a floating-point rule: by more than the tolerance of the comparison)
Changed(c, payload) ==
    LET v == convert(Resolved(c, payload), c.type).v
        p == PreviousValue(c)
    IN  \/ p = NoValue
        \/ IF c.type = "double"
           THEN ~qFuzzyCompare(toFloat(v.n), toFloat(p.n))
           ELSE ~QVariantEq(v, p)

\* the outcomes of a message dropped by an extraction, conversion or write error
DropErrors == MessageErrors \cup {"prepareFailed", "execFailed"}

\* C16: after a message of a rule was dropped because of an extraction,
\* conversion or write error, a valid message carrying a changed value is
\* persisted (the store being open and taking the calls).
C16_ValidMessagePersistedAfterDrop ==
    \A c \in Rules :
        (Fed(c) /\ dbOpen /\ hist[c.sensorId].outcome \in DropErrors)
            => \A payload \in Payloads(c.topic) :
                   (IsObservation(c, payload) /\ Changed(c, payload))
                       => Handle(c, payload, TRUE, TRUE, TRUE).outcome = "inserted"


\* C17: a message of a rule executes the INSERT at most once; when the INSERT
\* fails to prepare or to execute no row is written for the message, in that
\* step or later (a row is only ever written in the step of the message it
\* belongs to), and the process goes on running.
C17_OneInsertAttemptNoRetry ==
    /\ [](\A c \in Rules :
            /\ hist[c.sensorId].inserts <= 1
            /\ hist[c.sensorId].inserts = 1
                  <=> hist[c.sensorId].outcome \in {"inserted", "execFailed"})
    /\ [][\A c \in Rules :
            /\ (/\ hist'[c.sensorId] # hist[c.sensorId]
                /\ hist'[c.sensorId].outcome \in {"prepareFailed", "execFailed"})
                  => rows' = rows /\ pc' = "running" /\ exited' = NotExited
            /\ Inserts(c)
                  => /\ hist'[c.sensorId].outcome = "inserted"
                     /\ rows' = Append(rows, Row(c.type, c.sensorId,
                                   convert(QString(hist'[c.sensorId].payload), c.type).v))
            /\ rows' # rows => Len(rows') = Len(rows) + 1]_vars

\* the INSERT of the latest message of a key was executed once and failed,
\* after an earlier message of the key was inserted: still that one row
C17_Witness ==
    \E c \in Rules :
        /\ hist[c.sensorId].outcome = "execFailed" /\ hist[c.sensorId].inserts = 1
        /\ contains(c.sensorId) /\ Len(rows) = 1
        /\ m_lastvalues[c.sensorId] # convert(QString(hist[c.sensorId].payload), c.type).v


\* the errorOccured signals emitted with the exit code of a connection error
ConnectionSignals == SelectSeq(signals, LAMBDA sig : sig.exitcode = 3)

\* C18: every client error other than NoError handed to onConnectionError is
\* surfaced as exactly one errorOccured signal carrying the text of the error
\* and the exit code 3; a NoError notification emits nothing.
C18_ConnectionErrorSignalled ==
    /\ notified \in ClientErrors \ {"NoError"}
          => /\ ConnectionSignals =
                    << [error |-> qMqttClientErrorToString[notified], exitcode |-> 3] >>
             /\ signals[Len(signals)] = ConnectionSignals[1]
    /\ notified \in {"None", "NoError"} => ConnectionSignals = <<>>
    /\ \A i \in DOMAIN signals : signals[i].error # qMqttClientErrorToString["NoError"]

\* a transport error was notified while the client was connecting, after a
\* NoError notification or none: the one signal is there
C18_Witness ==
    /\ notified = "TransportInvalid" /\ clientState = "Connecting"
    /\ signals = << [error |-> qMqttClientErrorToString["TransportInvalid"], exitcode |-> 3] >>

\* C19: the client is told to connect exactly once per process, by the
\* constructor; after an error is notified, in whatever state of the
\* connection, no handler makes it connect again and the client never goes
\* back to Connecting.
C19_ConnectOnce ==
    /\ [](/\ connects <= 1
          /\ pc = "running" => connects = 1
          /\ notified \in ClientErrors \ {"NoError"} => connects = 1 /\ pc = "exited")
    /\ [][(\/ connects' # connects
           \/ clientState' = "Connecting" /\ clientState # "Connecting")
              => /\ pc = "parsed" /\ pc' = "running"
                 /\ connects = 0 /\ connects' = 1
                 /\ notified = "None"]_vars

\* an error was notified after the connection was established (or had ended):
\* one connect attempt was made, the client is not connecting
C19_Witness ==
    /\ notified \in ClientErrors \ {"NoError"}
    /\ clientState \in {"Connected", "Disconnected"}
    /\ connects = 1 /\ pc = "exited"

\* C20: when the store cannot be opened at startup (by parse or by the
\* constructor) the process terminates with exit code 2, and no other
\* termination path (version output, configuration error, subscription
\* failure, connection error) uses that code.
C20_StoreFailureExitsTwo ==
    /\ opened = "failed"
          => pc = "exited" /\ exited.code = 2 /\ exited.path = "store"
    /\ exited.code = 2 => opened = "failed"
    /\ pc = "exited" <=> exited # NotExited
    /\ exited.path = "version" => exited.code = 0
    /\ exited.path = "config" => exited.code = 1
    /\ exited.path = "subscribe" => exited.code = 1
    /\ exited.path = "connection" => exited.code = 3

\* the settings are read and the store does not open: exit code 2
C20_Witness ==
    /\ SettingsOk /\ ~ini.showVersion
    /\ opened = "failed" /\ exited.code = 2


\* C21: once the connection is established and every subscription succeeded,
\* m_subscriptions holds one entry per configured rule, in the order of the
\* rules and with the rule's topic as filter, and after them exactly one entry
\* for "#"; a refused subscription ends the process with the entries made
\* before it.
C21_OneSubscriptionPerRuleAndCatchAll ==
    /\ (pc = "running" /\ clientState = "Connected")
          => /\ Len(m_subscriptions) = Len(m_mqttTopicConfig) + 1
             /\ \A i \in DOMAIN m_mqttTopicConfig :
                    m_subscriptions[i] = m_mqttTopicConfig[i].topic
             /\ Cardinality({i \in DOMAIN m_subscriptions : m_subscriptions[i] = "#"}) = 1
    /\ exited.path = "subscribe"
          => /\ Len(m_subscriptions) <= Len(m_mqttTopicConfig)
             /\ \A i \in DOMAIN m_subscriptions :
                    m_subscriptions[i] = m_mqttTopicConfig[i].topic

\* the three rules and "#" are subscribed and the process runs
C21_Witness ==
    /\ pc = "running" /\ clientState = "Connected"
    /\ m_subscriptions = <<"status", "sensors/temp", "raw/temp", "#">>


\* a rule message or a catch-all message has been handled
Handled ==
    \/ \E k \in SensorIds : hist[k] # NoMessage
    \/ \E t \in Topics : anyHist[t] # NoAnyMessage

\* C22: the connection goes from Disconnected to Connecting (the constructor)
\* and from Connecting to Connected (the broker's acknowledgement), and from
\* there only back to Disconnected when it ends; the subscriptions are made in
\* the step of the acknowledgement and at no other time; a rule message is
\* handled only while connected and after the subscription of its rule was
\* made, a catch-all message only while connected and after "#" was subscribed.
C22_ConnectSubscribeHandleInOrder ==
    /\ [](/\ m_subscriptions # <<>>
                => connects = 1 /\ clientState \in {"Connected", "Disconnected"}
          /\ clientState = "Connecting" => ~Handled
          /\ Handled => m_subscriptions = Filters)
    /\ [][/\ clientState' # clientState
                => <<clientState, clientState'>> \in
                      { <<"Disconnected", "Connecting">>, <<"Connecting", "Connected">>,
                        <<"Connecting", "Disconnected">>, <<"Connected", "Disconnected">> }
          /\ m_subscriptions' # m_subscriptions
                => /\ clientState = "Connecting" /\ clientState' = "Connected"
                   /\ m_subscriptions = <<>>
          /\ hist' # hist
                => /\ clientState = "Connected" /\ clientState' = "Connected"
                   /\ \E i \in DOMAIN m_subscriptions \cap DOMAIN m_mqttTopicConfig :
                          /\ m_mqttTopicConfig[i].sensorId = dispatch'.handler
                          /\ m_subscriptions[i] = m_mqttTopicConfig[i].topic
          /\ anyHist' # anyHist
                => /\ clientState = "Connected" /\ clientState' = "Connected"
                   /\ HasSubscription("#")]_vars

\* a rule message and a catch-all message were handled on the one connection
C22_Witness ==
    /\ pc = "running" /\ clientState = "Connected" /\ connects = 1
    /\ hist[TextRule.sensorId].outcome = "inserted"
    /\ anyHist[TextRule.topic].count > 0


\* C23: every run of handleMessage works under the config of the rule for
\* whose subscription the calling lambda was connected, also when two rules
\* have the same topic filter.
C23_HandledUnderOwnConfig == dispatch.handler = dispatch.config


\* the value of the message a step hands to handleMessage, converted to the
\* type of the config it is handled under
Arrived(c) == convert(Resolved(c, hist'[c.sensorId].payload), c.type).v

\* C24 as stated: the rows of a key are, in order, values that arrived: every
\* step leaves the rows there are in place and adds at most one row, after
\* them, which holds the value of the message the step handles.
C24_RowsAreArrivedValuesInOrder ==
    [][\/ rows' = rows
       \/ \E c \in Rules :
             /\ dispatch'.config = c.sensorId
             /\ rows' = Append(rows, [table |-> c.type, sensorId |-> c.sensorId,
                                      value |-> Arrived(c)])]_vars

\* C24: every step leaves the rows there are in place and adds at most one
\* row, after them, which holds the value of the message the step handles as
\* the column renders it (a floating-point value rounded to single
\* precision): the rows of a key are, in order, renderings of a subsequence
\* of the values that arrived for it.
C24_RowsAreRenderedArrivalsInOrder ==
    [][\/ rows' = rows
       \/ \E c \in Rules :
             /\ dispatch'.config = c.sensorId
             /\ hist'[c.sensorId].outcome = "inserted"
             /\ rows' = Append(rows, Row(c.type, c.sensorId, Arrived(c)))]_vars

\* three values arrived for a key in the order 21.5, 22.0, 22.0: the rows
\* hold the first two, in that order
C24_Witness ==
    /\ RowsOf(RawRule.type, RawRule.sensorId)
          = << Row("double", RawRule.sensorId, Double(D21_5)),
               Row("double", RawRule.sensorId, Double(D22_0)) >>
    /\ hist[RawRule.sensorId].payload = "22.0"
    /\ hist[RawRule.sensorId].outcome = "skipped"


\* the rules the process runs with
Configured == {m_mqttTopicConfig[i] : i \in DOMAIN m_mqttTopicConfig}

stderrOf ==
    [outcome \in {"parseError", "pathNotFound", "dbClosed", "convertFailed", "skipped",
                  "prepareFailed", "execFailed", "inserted", "none"} |->
        CASE outcome = "parseError" -> "Error while parsing payload: "
          [] outcome = "pathNotFound" -> "Error: can not extract value with JSONPath: "
          [] outcome = "dbClosed" -> "SQL error: Database not open!"
          [] outcome = "prepareFailed" -> "SQL error: can not prepare statement: "
          [] outcome = "execFailed" -> "SQL error: can not execute statement: "
          [] OTHER -> ""]

\* C27: a message is either converted to the type of its rule before it is
\* compared and inserted, or dropped with an error reported: no message is
\* dropped at the conversion without an error on the error stream.
C27_ConversionDropReported ==
    \A c \in Rules :
        /\ hist[c.sensorId].outcome \in {"skipped", "inserted", "prepareFailed", "execFailed"}
              => convert(Resolved(c, hist[c.sensorId].payload), c.type).ok
        /\ hist[c.sensorId].outcome = "convertFailed"
              => stderrOf[hist[c.sensorId].outcome] # ""


\* the value of a message with the scaling of its rule applied: multiplied by
\* the factor for a floating-point rule that has one, else as extracted
Scaled(c, v) ==
    IF c.type = "double" /\ scaling[c.sensorId] # NoScaling
    THEN Double(v.n * scaling[c.sensorId])
    ELSE v

\* C28: the row a message of a rule is inserted as holds the extracted value
\* multiplied by the scale factor when the rule is floating-point and has a
\* scale factor, and the extracted value when it has none.
C28_ScaledValueInserted ==
    [][\A c \in Rules :
          Inserts(c) => rows'[Len(rows')].value = stored(Scaled(c, Arrived(c)))]_vars


\* C29: parse takes a config file whose [mqtt] hostname is not empty and whose
\* version is 3, 4 or 5 or is not given (it is 3 then), and no other: for any
\* other the process ends in main with exit code 1, m_lastError naming the
\* reason and isValid() false, and no subscriber was constructed (the store
\* was not opened, the client was not told to connect); for a file it takes,
\* the process does not end on the configuration, and isValid() is true.
C29_VersionAndHostnameChecked ==
    (pc # "main" /\ ~ini.showVersion)
        => IF ini.hostname # "" /\ ini.version \in {NoVersion, 3, 4, 5}
           THEN /\ exited.path # "config"
                /\ isValid /\ m_lastError = ""
                /\ opened # "none"
           ELSE /\ pc = "exited"
                /\ exited = [path |-> "config", code |-> 1]
                /\ ~isValid
                /\ m_lastError = IF ini.hostname = "" THEN "Error: hostname is empty!"
                                 ELSE "Error: invalid MQTT version: 6"
                /\ opened = "none" /\ connects = 0 /\ clientState = "Disconnected"
                /\ m_subscriptions = <<>> /\ signals = <<>>

\* version 6 was refused: exit code 1, the error names the version
C29_Witness ==
    /\ ini.hostname = "broker" /\ ini.version = 6 /\ ~ini.showVersion
    /\ exited = [path |-> "config", code |-> 1]
    /\ m_lastError = "Error: invalid MQTT version: 6"
    /\ ~isValid /\ connects = 0


\* the value differs from the one the latest row of the key holds (for a
\* floating-point rule: by more than the tolerance of the comparison)
DiffersFromLastPersisted(c, v) ==
    IF c.type = "double"
    THEN ~qFuzzyCompare(toFloat(v.n), toFloat(LastPersisted(c).n))
    ELSE ~QVariantEq(v, LastPersisted(c))

\* C30: with the store open and taking every call, a message whose value
\* differs from the value of the latest row of its key is inserted, whether
\* or not an earlier row of the key holds that value: the values A, B, A make
\* three rows.
C30_ChangedValueAlwaysPersisted ==
    \A c \in Rules :
        (Fed(c) /\ dbOpen /\ HasRow(c.type, c.sensorId))
            => \A payload \in Payloads(c.topic) :
                   (/\ IsObservation(c, payload)
                    /\ DiffersFromLastPersisted(c, convert(Resolved(c, payload), c.type).v))
                       => Handle(c, payload, TRUE, TRUE, TRUE).outcome = "inserted"

C32_ClosedStoreDropsMessageOnly ==
    /\ [][\A c \in Rules :
            (hist'[c.sensorId] # hist[c.sensorId] /\ hist'[c.sensorId].outcome = "dbClosed")
                => /\ rows' = rows /\ m_lastvalues' = m_lastvalues
                   /\ queries' = queries /\ hist'[c.sensorId].inserts = 0
                   /\ pc' = "running" /\ exited' = NotExited]_vars
    /\ [](\A c \in Rules :
            (Fed(c) /\ dbOpen /\ hist[c.sensorId].outcome = "dbClosed")
                => \A payload \in Payloads(c.topic) :
                       LET h == Handle(c, payload, TRUE, TRUE, TRUE)
                           cv == convert(Extract(c, payload).v, c.type)
                       IN  /\ h.outcome # "dbClosed"
                           /\ cv.ok =>
                                 h.outcome =
                                    IF compareToPreviousValue(c.type, c.sensorId, cv.v, TRUE)
                                    THEN "skipped" ELSE "inserted")

\* the latest message of a key with a cache entry was dropped at the closed
\* store, the store is open again and the entry is still there
C32_Witness ==
    \E c \in Rules :
        /\ hist[c.sensorId].outcome = "dbClosed"
        /\ dbOpen /\ contains(c.sensorId)
        /\ m_lastvalues[c.sensorId] = LatestValue(c.type, c.sensorId)
        /\ pc = "running"

\* C33: handleAnyMessage appends the topic to m_seenTopics before it looks at
\* the store, so a topic is seen from its first message on, whether or not the
\* upsert of that message was executed or wrote the row; for a seen topic no
\* upsert is executed and its sensors_seen row is not written again.
C33_SeenBeforeUpsertNeverRetried ==
    /\ [](\A t \in Topics : anyHist[t].count > 0 => wasTopicSeen(t))
    /\ [](\A t \in Topics : upserts[t] <= 1)
    /\ [][\A t \in Topics :
            wasTopicSeen(t)
                => /\ upserts'[t] = upserts[t]
                   /\ sensors_seen'[t] = sensors_seen[t]
                   /\ m_seenTopics' = m_seenTopics \/ anyHist'[t] = anyHist[t]]_vars

\* a topic whose first message found no upsert executed got a second message
\* with the store open: it is seen, and still no upsert was executed for it
C33_Witness ==
    \E t \in Topics :
        /\ anyHist[t].count = 2
        /\ wasTopicSeen(t) /\ upserts[t] = 0
        /\ sensors_seen[t] = InitialSeen[t]
        /\ dbOpen

\* C34: when the client refuses a filter, errorOccured is emitted once, naming
\* that filter, with exit code 1, and main's handler ends the process with code
\* 1; m_subscriptions holds the filters subscribed before it and no entry for
\* the refused one, and no message is handled.
C34_RefusedSubscriptionExitsOne ==
    /\ [](exited.path = "subscribe"
            => LET refused == Filters[Len(m_subscriptions) + 1]
               IN  /\ pc = "exited" /\ exited.code = 1
                   /\ signals = << [error |-> "Failed to subscribe to " \o refused,
                                    exitcode |-> 1] >>
                   /\ m_subscriptions = SubSeq(Filters, 1, Len(m_subscriptions))
                   /\ \A i \in DOMAIN m_subscriptions : m_subscriptions[i] # refused
                   /\ ~Handled)
    /\ [][(exited.path # "subscribe" /\ exited'.path = "subscribe")
            => /\ pc = "running" /\ clientState' = "Connected"
               /\ Len(signals') = Len(signals) + 1]_vars

\* the second rule's filter was refused: the process ended with code 1 and
\* only the first rule's subscription was made
C34_Witness ==
    /\ exited = [path |-> "subscribe", code |-> 1]
    /\ m_subscriptions = <<TextRule.topic>>
    /\ signals[1].error = "Failed to subscribe to sensors/temp"

\* C38: the partition asked for the previous value of a message and the
\* partition its row goes to are the one named after the rule's type: on a
\* cache miss the message is skipped exactly when that partition's latest row
\* of the key holds the value, a row inserted for a rule lies in the partition
\* of the rule's type and holds a value of that type, and so does every row of
\* the store.
C38_OnePartitionPerRuleType ==
    /\ [](\A c \in Rules : \A payload \in Payloads(c.topic) :
            LET cv == convert(Extract(c, payload).v, c.type)
                h == Handle(c, payload, TRUE, TRUE, TRUE)
            IN  (dbOpen /\ cv.ok /\ ~contains(c.sensorId))
                    => (h.outcome = "skipped"
                          <=> /\ HasRow(c.type, c.sensorId)
                              /\ IF c.type = "double"
                                 THEN qFuzzyCompare(toFloat(cv.v.n),
                                                    toFloat(LatestValue(c.type, c.sensorId).n))
                                 ELSE QVariantEq(cv.v, LatestValue(c.type, c.sensorId))))
    /\ [](\A i \in DOMAIN rows :
            \E c \in Rules :
                /\ rows[i].sensorId = c.sensorId
                /\ rows[i].table = c.type /\ rows[i].value.type = c.type)
    /\ [][\A c \in Rules :
            Inserts(c) => /\ rows'[Len(rows')].table = c.type
                          /\ rows'[Len(rows')].value.type = c.type
                          /\ hist'[c.sensorId].outcome = "inserted"]_vars

\* the floating-point partition held a row of a key; a message of the key was
\* compared with it by a query and its row went to the same partition
C38_Witness ==
    LET rs == RowsOf("double", RawRule.sensorId)
    IN  /\ Len(rs) = 2 /\ Len(rows) = 2
        /\ rs[1].value # rs[2].value
        /\ hist[RawRule.sensorId].outcome = "inserted"
        /\ hist[RawRule.sensorId].queried /\ ~hist[RawRule.sensorId].queryFailed

\* C39: the constructor opens the store, and issues the statements that create
\* its tables, before it tells the client to connect: the client is asked to
\* connect only in a step that leaves the store opened, and whenever a connect
\* was asked for, a subscription exists or a rule or catch-all message has been
\* handled, the store open of the constructor has succeeded.
C39_StoreOpenedBeforeConnect ==
    /\ []((connects > 0 \/ clientState # "Disconnected" \/ m_subscriptions # <<>>)
            => opened = "ok")
    /\ [](Handled => opened = "ok" /\ connects = 1)
    /\ [][connects' # connects
            => /\ pc = "parsed" /\ pc' = "running"
               /\ opened' = "ok" /\ dbOpen']_vars

\* a rule message was inserted and a catch-all message handled by a process
\* whose constructor opened the store and then asked for the connection
C39_Witness ==
    /\ opened = "ok" /\ connects = 1
    /\ \E k \in SensorIds : hist[k].outcome = "inserted"
    /\ m_seenTopics # <<>>

\* C40: m_seenTopics holds no topic twice, and no step removes or replaces an
\* entry: a step leaves the list as it is or appends one topic that was not in
\* it.
C40_SeenTopicsGrowsWithoutDuplicates ==
    /\ [](\A i, j \in DOMAIN m_seenTopics :
            m_seenTopics[i] = m_seenTopics[j] => i = j)
    /\ [][\/ m_seenTopics' = m_seenTopics
          \/ \E t \in Topics :
                /\ ~wasTopicSeen(t)
                /\ m_seenTopics' = Append(m_seenTopics, t)]_vars

\* two topics are in the list, the first of them has had a second message
C40_Witness ==
    /\ Len(m_seenTopics) = 2
    /\ anyHist[m_seenTopics[1]].count = 2
    /\ anyHist[m_seenTopics[2]].count > 0

\* compareToPreviousValue of the revision that addresses a key by group and
\* name: the store is asked for the key's latest row on every call; the key
\* of the model stands for the pair. queryOk is the outcome of squery.exec.
compareToPreviousValueByName(table, key, newValue, queryOk) ==
    IF queryOk /\ HasRow(table, key)
    THEN LET lastValue == LatestValue(table, key)
         IN  IF newValue.type = "double"
             THEN qFuzzyCompare(toFloat(newValue.n), toFloat(lastValue.n))
             ELSE QVariantEq(newValue, lastValue)
    ELSE FALSE

\* C35: in a run of one process from an empty store, no store call failing and
\* nothing else writing to the store, the detector that keeps m_lastvalues and
\* the detector that asks the store on every message decide alike on every
\* message whose value converts: both find it identical to the previous value
\* or both find it changed.
C35_DetectorsDecideAlike ==
    \A c \in Rules :
        (Fed(c) /\ dbOpen /\ scenario # Off)
            => \A payload \in Payloads(c.topic) :
                   LET cv == convert(Extract(c, payload).v, c.type)
                   IN  cv.ok =>
                         compareToPreviousValue(c.type, c.sensorId, cv.v, TRUE)
                            = compareToPreviousValueByName(c.type, c.sensorId, cv.v, TRUE)

\* C36: nothing guards the change detection of two processes on one store.
\* A process that has a cache entry for the key decides by that entry alone,
\* whatever the store's latest row is by then, and no step of a process
\* brings the other's insert into its m_lastvalues; so, with both processes
\* getting the same messages, the store comes to hold two consecutive rows of
\* one key with equal values (the witness).
C36_ChangeDetectionUnguarded ==
    [][(/\ inCall.handler = "handleMessage"
        /\ inCall' = NoCall /\ proc' = proc)
          => LET c == senderConfig(inCall.topic)
                 v == convert(Extract(c, inCall.payload).v, c.type).v
             IN  /\ peer' = peer
                 /\ contains(c.sensorId)
                       => (hist'[c.sensorId].outcome = "skipped"
                              <=> QVariantEq(v, m_lastvalues[c.sensorId]))
                 /\ m_lastvalues'[c.sensorId] # m_lastvalues[c.sensorId]
                       => /\ m_lastvalues'[c.sensorId] = v
                          /\ Inserts(c)]_vars

\* two consecutive rows of the text rule's key hold the same value, each
\* inserted by one of the two processes, no store call having failed to
\* answer a query
C36_Witness ==
    \E i \in DOMAIN rows :
        /\ i + 1 \in DOMAIN rows
        /\ rows[i].table = rows[i + 1].table
        /\ rows[i].sensorId = rows[i + 1].sensorId
        /\ rows[i].value = rows[i + 1].value
        /\ m_lastvalues[rows[i].sensorId] = rows[i].value
        /\ peer.m_lastvalues[rows[i].sensorId] = rows[i].value

====
